---- MODULE Spec2Model ----
(***************************************************************************)
(* PTRAIL: spatial features (src/features/spatial_features.py) and the     *)
(* statistics aggregator (src/ptrail/preprocessing/statistics.py).         *)
(*                                                                         *)
(* The module holds several state machines over disjoint groups of         *)
(* variables; each specification moves one group and pins the others:      *)
(*   SpecPartition  the row-count partition loop of the create_*_column    *)
(*                  operations, with the source's constants 75001/75000,   *)
(*                  a chunk being the range of index labels it selects;    *)
(*   SpecExec       partition, Pool.map and pd.concat of                   *)
(*                  create_distance_between_consecutive_column on tables   *)
(*                  of concrete rows, worker by worker;                    *)
(*   Spec           a caller's calls of the consecutive distance and the   *)
(*                  create_*_from_prev_column operations on tables of      *)
(*                  concrete rows (each call one action);                  *)
(*   SpecPivot      calls of pivot_stats_df against the module-level list  *)
(*                  const.ORDERED_COLS;                                    *)
(*   SpecLookup     get_start_location / get_end_location;                 *)
(*   SpecStats      the import of the statistics module and a call of      *)
(*                  segment_traj_by_week or generate_kinematic_stats,      *)
(*                  worker by worker;                                      *)
(*   SpecOverlap    the caller's session of Spec on tables whose           *)
(*                  trajectories overlap in time.                          *)
(*                                                                         *)
(* Tables of concrete rows cannot hold 75001 rows in a model checker.      *)
(* The row-level machines therefore run the same partition code with the   *)
(* stride of range() scaled down to Stride, the end label of the .loc      *)
(* slice keeping the source's distance to the stride (75001 - 75000).      *)
(***************************************************************************)
EXTENDS Integers, Sequences, FiniteSets, TLC

VARIABLES
    \* ---- SpecPartition: the partition loop, index labels only
    pop,        \* which create_*_column operation runs
    pn,         \* len(dataframe)
    pi,         \* the loop variable i of range(0, len(dataframe), 75001)
    pchunks,    \* the list the loop appends to: label ranges [lo, hi]
    ppc         \* "loop", "pool" (about to build the Pool), "map", "ValueError"

VARIABLES
    \* ---- SpecExec: create_distance_between_consecutive_column, step by step
    etbl,       \* the dataframe argument
    echunks,    \* chunks: the list handed to multi_pool.map
    epool,      \* the number of processes of the Pool
    estatus,    \* per chunk: "queued", "running", "done", "failed"
    eresults,   \* the result list multi_pool.map fills
    eruns,      \* per chunk: how many times a worker has started it
    eorder,     \* the chunks in the order their workers ended
    epc,        \* "call", "map", "returned", "raised"
    eret        \* what the caller gets: a table, or None

VARIABLES
    \* ---- Spec: a caller applying the create_* operations to a table
    base,       \* the table object the caller starts from
    cur,        \* the table object the caller holds and passes next
    curIsBase,  \* cur and base are the same object
    argBefore,  \* the argument object of the last call, before the call
    argAfter,   \* the same object after the call
    aliased,    \* the last call returned its argument object
    lastOp,     \* the operation called last
    outcome,    \* "ok", or the exception the last call raised
    ncalls,     \* calls made since the caller took the base table
    onChain,    \* those calls are the first ncalls operations of ManualChain
    snapOp,     \* the operation whose result the caller has put aside
    snap        \* that result

VARIABLES
    \* ---- SpecPivot: calls of pivot_stats_df in one process
    ORDERED_COLS,   \* const.ORDERED_COLS, the module-level list
    qstats,     \* the stats table passed to every call
    qtargets,   \* the target_col_name of each call made, in order
    qout,       \* "ok", or the exception the last call raised
    qret,       \* the table the last call returned, or None
    qpivoted    \* the value columns the last call handed to pivot_table

VARIABLES
    \* ---- SpecLookup: get_start_location / get_end_location
    ltbl,       \* the caller's table
    lgiven,     \* the table as it was when the caller made the call
    lop,        \* the operation called
    lid,        \* traj_id
    lpc,        \* "idle", "returned", "raised"
    lret        \* the value returned

VARIABLES
    \* ---- SpecStats: statistics.py, import and one call
    num,        \* os.cpu_count()
    NUM_CPU,    \* the module-level NUM_CPU, set when the module is imported
    gop,        \* the operation called
    gtbl,       \* the dataframe argument
    gchunks,    \* df_chunks
    gpool,      \* the number of processes of the Pool
    gstatus,    \* per chunk: "queued", "running", "done", "failed"
    gresults,   \* the result list map() / starmap() fills
    gpc,        \* "import", "call", "map", "returned", "raised"
    gret        \* what the caller gets: a table, or None

partVars == <<pop, pn, pi, pchunks, ppc>>

statVars == <<num, NUM_CPU, gop, gtbl, gchunks, gpool, gstatus, gresults, gpc, gret>>

pivotVars == <<ORDERED_COLS, qstats, qtargets, qout, qret, qpivoted>>

lookVars == <<ltbl, lgiven, lop, lid, lpc, lret>>

chainVars == <<base, cur, curIsBase, argBefore, argAfter, aliased, lastOp,
               outcome, ncalls, onChain, snapOp, snap>>

execVars == <<etbl, echunks, epool, estatus, eresults, eruns, eorder, epc, eret>>

vars == <<partVars, execVars, chainVars, pivotVars, lookVars, statVars>>

\* What the machine of one group leaves alone.
notPart == <<execVars, chainVars, pivotVars, lookVars, statVars>>

notExec == <<partVars, chainVars, pivotVars, lookVars, statVars>>

notChain == <<partVars, execVars, pivotVars, lookVars, statVars>>

notPivot == <<partVars, execVars, chainVars, lookVars, statVars>>

notLook == <<partVars, execVars, chainVars, pivotVars, statVars>>

notStat == <<partVars, execVars, chainVars, pivotVars, lookVars>>

None == "None"

\* traj_id=None, the default: no trajectory asked for (ids start at 1).
NoId == 0

----------------------------------------------------------------------------
(* Generic helpers *)

Min(a, b) == IF a < b THEN a ELSE b

Abs(x) == IF x < 0 THEN -x ELSE x

Range(f) == {f[x] : x \in DOMAIN f}

RECURSIVE SumSeq(_)
SumSeq(s) == IF s = <<>> THEN 0 ELSE Head(s) + SumSeq(Tail(s))

----------------------------------------------------------------------------
(* Row-count partitioning: for i in range(0, len(df), 75001):              *)
(*                             chunks.append(df.reset_index().loc[i:i+75000]) *)

\* The step of range() in the four partition loops.
CHUNK_STEP == 75001

\* The offset of the end label of the .loc slice from its start label.
CHUNK_LAST == 75000

\* The end-label offset that goes with a stride: the source's 75000 for 75001.
LastOffset(step) == step - (CHUNK_STEP - CHUNK_LAST)

\* Mutant of LocSlice: the end label excluded, as a positional slice would.
LocSliceExclusive(n, i, last) == [lo |-> i, hi |-> Min(i + last - 1, n - 1)]

\* df.reset_index().loc[i : i + last] on the RangeIndex 0..n-1: a label slice,
\* both ends included, an end label past the index selecting up to the end.
LocSlice(n, i, last) == [lo |-> i, hi |-> Min(i + last, n - 1)]

\* Number of rows of a label range.
ChunkLen(c) == IF c.hi < c.lo THEN 0 ELSE c.hi - c.lo + 1

\* The four operations that partition by row count.
RowCountOps ==
    {"create_distance_between_consecutive_column",
     "create_distance_from_start_column",
     "create_point_within_range_column",
     "create_distance_from_given_point_column"}

\* Bounds of SpecPartition: table sizes 0..SmallRows and k*75001 + d.
SmallRows == 2

MaxChunks == 2

Slack == 2

PartitionSizes ==
    (0..SmallRows) \cup
    {k * CHUNK_STEP + d : k \in 1..MaxChunks, d \in (0 - Slack)..Slack}

\* The variables of the row-level executor, at rest.
ExecIdle ==
    /\ etbl = None
    /\ echunks = <<>>
    /\ epool = 0
    /\ estatus = <<>>
    /\ eresults = <<>>
    /\ eruns = <<>>
    /\ eorder = <<>>
    /\ epc = "idle"
    /\ eret = None

\* The variables of the pivot calls, at rest.
PivotIdle ==
    /\ ORDERED_COLS = <<>>
    /\ qstats = None
    /\ qtargets = <<>>
    /\ qout = None
    /\ qret = None
    /\ qpivoted = {}

\* The variables of the lookups, at rest.
LookIdle ==
    /\ ltbl = None
    /\ lgiven = None
    /\ lop = None
    /\ lid = NoId
    /\ lpc = "idle"
    /\ lret = None

\* The variables of the statistics module, at rest.
StatIdle ==
    /\ num = 0
    /\ NUM_CPU = 0
    /\ gop = None
    /\ gtbl = None
    /\ gchunks = <<>>
    /\ gpool = 0
    /\ gstatus = <<>>
    /\ gresults = <<>>
    /\ gpc = "idle"
    /\ gret = None

\* The variables of the caller's session, at rest.
ChainIdle ==
    /\ base = None
    /\ cur = None
    /\ curIsBase = FALSE
    /\ argBefore = None
    /\ argAfter = None
    /\ aliased = FALSE
    /\ lastOp = None
    /\ outcome = None
    /\ ncalls = 0
    /\ onChain = FALSE
    /\ snapOp = None
    /\ snap = None

\* The variables of the partition loop, at rest.
PartIdle ==
    /\ pop = None
    /\ pn = 0
    /\ pi = 0
    /\ pchunks = <<>>
    /\ ppc = "idle"

InitPartition ==
    /\ ExecIdle
    /\ ChainIdle
    /\ PivotIdle
    /\ LookIdle
    /\ StatIdle
    /\ pop \in RowCountOps
    /\ pn \in PartitionSizes
    /\ pi = 0
    /\ pchunks = <<>>
    /\ ppc = "loop"

\* One iteration of the loop body.
LoopAppend ==
    /\ ppc = "loop"
    /\ pi < pn
    /\ pchunks' = Append(pchunks, LocSlice(pn, pi, LastOffset(CHUNK_STEP)))
    /\ pi' = pi + CHUNK_STEP
    /\ UNCHANGED <<pop, pn, ppc, notPart>>

\* range() is exhausted.
LoopExit ==
    /\ ppc = "loop"
    /\ pi >= pn
    /\ ppc' = "pool"
    /\ UNCHANGED <<pop, pn, pi, pchunks, notPart>>

\* multiprocessing.Pool(len(chunks)): ValueError unless processes >= 1.
PoolCreate ==
    /\ ppc = "pool"
    /\ ppc' = IF Len(pchunks) >= 1 THEN "map" ELSE "ValueError"
    /\ UNCHANGED <<pop, pn, pi, pchunks, notPart>>

NextPartition == LoopAppend \/ LoopExit \/ PoolCreate

SpecPartition == InitPartition /\ [][NextPartition]_vars

----------------------------------------------------------------------------
(* Tables.  A table is held in the form reset_index() gives it: idx the    *)
(* index labels of its rows, cols the columns by name, each a sequence.    *)

RawCols == {"traj_id", "DateTime", "lat", "lon"}

NRows(t) == Len(t.idx)

HasCol(t, c) == c \in DOMAIN t.cols

\* The rows lo..hi (labels, on a table whose labels are 0..n-1), labels kept.
RowsOf(t, r) ==
    [idx  |-> SubSeq(t.idx, r.lo + 1, r.hi + 1),
     cols |-> [c \in DOMAIN t.cols |-> SubSeq(t.cols[c], r.lo + 1, r.hi + 1)]]

\* dataframe[name] = values: the column added, or overwritten.
WithCol(t, name, values) ==
    [idx  |-> t.idx,
     cols |-> [c \in (DOMAIN t.cols) \cup {name} |->
                 IF c = name THEN values ELSE t.cols[c]]]

\* pd.concat of two frames with the same columns: rows and labels appended.
Concat2(a, b) ==
    [idx  |-> a.idx \o b.idx,
     cols |-> [c \in DOMAIN a.cols |-> a.cols[c] \o b.cols[c]]]

\* pd.concat(frames), frames a non-empty list.
RECURSIVE ConcatFrames(_)
ConcatFrames(frames) ==
    IF Len(frames) = 1 THEN frames[1]
    ELSE Concat2(frames[1], ConcatFrames(Tail(frames)))

\* Input tables.  The first row is trajectory 1 at time 0 and longitude 0;
\* every later row is described by a step: whether it opens a new trajectory,
\* its time gap in seconds to the row before, and how many degrees of
\* longitude it moves.  All points lie on the equator; a negative gap sets
\* the row back in time.
RECURSIVE BuildCols(_, _)
BuildCols(steps, acc) ==
    IF steps = <<>> THEN acc
    ELSE LET s == Head(steps)
             n == Len(acc["lon"])
             row == [traj_id  |-> IF s.new THEN acc["traj_id"][n] + 1
                                  ELSE acc["traj_id"][n],
                     DateTime |-> acc["DateTime"][n] + s.gap,
                     lat      |-> 0,
                     lon      |-> acc["lon"][n] + s.move]
         IN BuildCols(Tail(steps), [c \in RawCols |-> Append(acc[c], row[c])])

FirstRow == [c \in RawCols |-> IF c = "traj_id" THEN <<1>> ELSE <<0>>]

EmptyTable == [idx |-> <<>>, cols |-> [c \in RawCols |-> <<>>]]

TableOf(steps) ==
    [idx  |-> [k \in 1..(Len(steps) + 1) |-> k - 1],
     cols |-> BuildCols(steps, FirstRow)]

TablesUpTo(maxRows, stepSet) ==
    {EmptyTable} \cup
    {TableOf(s) : s \in UNION {[1..k -> stepSet] : k \in 0..(maxRows - 1)}}

----------------------------------------------------------------------------
(* Floating-point values.  <<n, d>> with d > 0 is the number n/d in lowest *)
(* terms, <<0, 0>> is NaN, <<1, 0>> is +inf, <<-1, 0>> is -inf.  Rounding   *)
(* is left out: arithmetic is exact.                                       *)

RECURSIVE Gcd(_, _)
Gcd(a, b) == IF b = 0 THEN a ELSE Gcd(b, a % b)

Sign(x) == IF x > 0 THEN 1 ELSE IF x < 0 THEN -1 ELSE 0

NaN == <<0, 0>>

Inf(s) == <<s, 0>>

FromInt(i) == <<i, 1>>

IsNaN(x) == x = NaN

IsFinite(x) == x[2] # 0

Norm(n, d) ==
    IF d = 0 THEN <<Sign(n), 0>>
    ELSE LET g == Gcd(Abs(n), Abs(d))
         IN <<Sign(d) * (n \div g), Abs(d) \div g>>

\* x - y, as IEEE 754 has it for NaN and the infinities.
FSub(x, y) ==
    IF IsNaN(x) \/ IsNaN(y) THEN NaN
    ELSE IF ~IsFinite(x) /\ ~IsFinite(y) THEN (IF x = y THEN NaN ELSE x)
    ELSE IF ~IsFinite(x) THEN x
    ELSE IF ~IsFinite(y) THEN Inf(0 - y[1])
    ELSE Norm(x[1] * y[2] - y[1] * x[2], x[2] * y[2])

\* Mutant of FDiv: a division by 0 gives 0.
FDivZeroIsZero(x, y) ==
    IF IsNaN(x) \/ IsNaN(y) THEN NaN
    ELSE IF y[1] = 0 THEN FromInt(0)
    ELSE IF ~IsFinite(x) THEN x
    ELSE Norm(x[1] * y[2], x[2] * y[1])

\* x / y for a divisor that is NaN or a finite number >= 0 (a time delta);
\* numpy division: x/0 is +-inf, 0/0 is NaN, no exception.
FDiv(x, y) ==
    IF IsNaN(x) \/ IsNaN(y) THEN NaN
    ELSE IF ~IsFinite(x) THEN x
    ELSE Norm(x[1] * y[2], x[2] * y[1])

----------------------------------------------------------------------------
(* Worker of the consecutive distance, and the great-circle distance.      *)

\* Kilometres per degree of longitude on the equator (6371 * pi / 180).
KmPerDegree == 111

\* calc.haversine_distance for two points on the equator.
HaversineDistance(lat1, lon1, lat2, lon2) == KmPerDegree * Abs(lon2 - lon1)

\* helpers._consecutive_distance_helper(chunk): the chunk with the column
\* Distance_prev_to_curr; 0 at position 0 of the chunk, the great-circle
\* distance between the records i-1 and i of the chunk at position i > 0.
ConsecutiveDistanceHelper(chunk) ==
    WithCol(chunk, "Distance_prev_to_curr",
        [k \in 1..NRows(chunk) |->
            IF k = 1 THEN FromInt(0)
            ELSE FromInt(HaversineDistance(
                     chunk.cols["lat"][k-1], chunk.cols["lon"][k-1],
                     chunk.cols["lat"][k], chunk.cols["lon"][k]))])

----------------------------------------------------------------------------
(* The partition of a table of rows, with the stride scaled down.          *)

\* The stride of range() in the row-level machines (75001 in the source).
Stride == 2

\* range(0, n, step) as a list.
RangeList(n, step) == [k \in 1..((n + step - 1) \div step) |-> (k - 1) * step]

\* Mutant of RowCountChunks: the table is handed over as one chunk.
OneChunk(t, step) ==
    IF NRows(t) = 0 THEN <<>> ELSE <<t>>

\* chunks = []; for i in range(0, len(df), step): chunks.append(df...loc[...])
RowCountChunks(t, step) ==
    LET starts == RangeList(NRows(t), step)
    IN [k \in 1..Len(starts) |->
           RowsOf(t, LocSlice(NRows(t), starts[k], LastOffset(step)))]

----------------------------------------------------------------------------
(* create_distance_between_consecutive_column, worker by worker:           *)
(*   multi_pool = multiprocessing.Pool(len(chunks))                        *)
(*   result = multi_pool.map(helpers._consecutive_distance_helper, chunks) *)
(*   result = pd.concat(result); return NumPandasTraj(result, ...)         *)

\* Bounds of SpecExec: tables of up to ExecMaxRows rows.
ExecMaxRows == 5

ExecSteps == [new : BOOLEAN, gap : {60}, move : {0, 1}]

SeqOf(n, v) == [k \in 1..n |-> v]

Running(status) == {j \in 1..Len(status) : status[j] = "running"}

Failed(status) == {j \in 1..Len(status) : status[j] = "failed"}

AllDone(status) == \A j \in 1..Len(status) : status[j] = "done"

\* Mutant of CanStart: a chunk whose worker failed is started again.
CanStartWithRetry(status, j) == status[j] \in {"queued", "failed"}

\* A task is handed to a worker once: Pool.map has no retry.
CanStart(status, j) == status[j] = "queued"

\* Mutant of StoreResult: results kept in the order the workers ended
\* (k is the rank of this worker among the ended ones).
StoreByCompletion(results, j, k, r) == [results EXCEPT ![k] = r]

\* Pool.map puts the result of the j-th task at position j of its result
\* list, whenever the task ends.
StoreResult(results, j, k, r) == [results EXCEPT ![j] = r]

\* Mutant of MapOutcome: the chunks that succeeded are merged and returned.
MapOutcomePartial(status, results) ==
    LET ok == {j \in 1..Len(status) : status[j] = "done"}
    IN IF ok = {} THEN [pc |-> "raised", ret |-> None]
       ELSE [pc  |-> "returned",
             ret |-> ConcatFrames(
                 [k \in 1..Cardinality(ok) |->
                    results[CHOOSE j \in ok :
                              Cardinality({i \in ok : i < j}) = k - 1]])]

\* How the call ends: map() re-raises a worker's exception in the caller, and
\* nothing in the function catches it; else the results are concatenated in
\* list order and returned.
MapOutcome(status, results) ==
    IF Failed(status) # {} THEN [pc |-> "raised", ret |-> None]
    ELSE [pc |-> "returned", ret |-> ConcatFrames(results)]

\* map() returns when every task has ended; it may raise as soon as one has
\* failed (older CPython) or once all have ended (CPython >= 3.8).
MapReady(status) == AllDone(status) \/ Failed(status) # {}

InitExec ==
    /\ PartIdle
    /\ ChainIdle
    /\ PivotIdle
    /\ LookIdle
    /\ StatIdle
    /\ etbl \in TablesUpTo(ExecMaxRows, ExecSteps)
    /\ echunks = <<>>
    /\ epool = 0
    /\ estatus = <<>>
    /\ eresults = <<>>
    /\ eruns = <<>>
    /\ eorder = <<>>
    /\ epc = "call"
    /\ eret = None

\* Lines 142-153 up to the submission of the tasks.  Pool(0) raises
\* ValueError: the call on an empty table ends there.
ExecCall ==
    /\ epc = "call"
    /\ LET ch == RowCountChunks(etbl, Stride)
       IN IF Len(ch) = 0
          THEN /\ epc' = "raised"
               /\ UNCHANGED <<echunks, epool, estatus, eresults, eruns>>
          ELSE /\ epc' = "map"
               /\ echunks' = ch
               /\ epool' = Len(ch)
               /\ estatus' = SeqOf(Len(ch), "queued")
               /\ eresults' = SeqOf(Len(ch), None)
               /\ eruns' = SeqOf(Len(ch), 0)
    /\ UNCHANGED <<etbl, eorder, eret, notExec>>

\* A free process of the pool takes a task.  The pool is never closed, so
\* its workers go on after map() has raised.
WorkerStart(j) ==
    /\ epc \in {"map", "raised"}
    /\ CanStart(estatus, j)
    /\ Cardinality(Running(estatus)) < epool
    /\ estatus' = [estatus EXCEPT ![j] = "running"]
    /\ eruns' = [eruns EXCEPT ![j] = @ + 1]
    /\ UNCHANGED <<etbl, echunks, epool, eresults, eorder, epc, eret, notExec>>

\* The worker function returns.
WorkerFinish(j) ==
    /\ epc \in {"map", "raised"}
    /\ estatus[j] = "running"
    /\ estatus' = [estatus EXCEPT ![j] = "done"]
    /\ eresults' = StoreResult(eresults, j, Len(eorder) + 1,
                               ConsecutiveDistanceHelper(echunks[j]))
    /\ eorder' = Append(eorder, j)
    /\ UNCHANGED <<etbl, echunks, epool, eruns, epc, eret, notExec>>

\* The worker function raises.
WorkerFail(j) ==
    /\ epc \in {"map", "raised"}
    /\ estatus[j] = "running"
    /\ estatus' = [estatus EXCEPT ![j] = "failed"]
    /\ eorder' = Append(eorder, j)
    /\ UNCHANGED <<etbl, echunks, epool, eresults, eruns, epc, eret, notExec>>

\* map() returns or raises; lines 156-157.
MapEnd ==
    /\ epc = "map"
    /\ MapReady(estatus)
    /\ LET out == MapOutcome(estatus, eresults)
       IN /\ epc' = out.pc
          /\ eret' = out.ret
    /\ UNCHANGED <<etbl, echunks, epool, estatus, eresults, eruns, eorder, notExec>>

NextExec ==
    \/ ExecCall
    \/ \E j \in 1..Len(estatus) : WorkerStart(j)
    \/ \E j \in 1..Len(estatus) : WorkerFinish(j)
    \/ \E j \in 1..Len(estatus) : WorkerFail(j)
    \/ MapEnd

SpecExec == InitExec /\ [][NextExec]_vars

----------------------------------------------------------------------------
(* C3, C4, C9 *)

\* C3: whatever the order in which the workers start and end, the table
\* returned is the concatenation of the workers' outputs in the order the
\* chunks were submitted: its j-th block is the output for the j-th chunk.
C3_OrderedMerge ==
    epc = "returned" =>
        eret = ConcatFrames(
                 [j \in 1..Len(echunks) |-> ConsecutiveDistanceHelper(echunks[j])])

\* Witness of C3: a call that returned although the worker of the second
\* chunk ended before the worker of the first, on chunks that differ.
C3_Witness ==
    /\ epc = "returned"
    /\ Len(echunks) >= 2
    /\ eorder[1] = 2
    /\ ConsecutiveDistanceHelper(echunks[1]) # ConsecutiveDistanceHelper(echunks[2])

\* C4: once a worker has failed, the operation can only end in failure, the
\* caller gets no table, and no chunk is ever started twice.
C4_AllOrNothing ==
    /\ (Failed(estatus) # {} /\ epc # "map") => (epc = "raised" /\ eret = None)
    /\ \A j \in 1..Len(eruns) : eruns[j] <= 1

\* Witness of C4: the operation has raised with one chunk failed and another
\* one done.
C4_Witness ==
    /\ epc = "raised"
    /\ Failed(estatus) # {}
    /\ \E j \in 1..Len(estatus) : estatus[j] = "done"

\* The label of the row at position k (from 1) of the returned table starts a
\* chunk: the labels range() yields.
StartsChunk(label) == label % Stride = 0

----------------------------------------------------------------------------
(* The create_* operations as functions of the argument object.  Each      *)
(* yields ok (the call returned) or the exception, ret (the object         *)
(* returned), arg (the argument object after the call) and same (ret is    *)
(* the argument object).                                                   *)

DIST == "Distance_prev_to_curr"

SPEED == "Speed_prev_to_curr"

ACC == "Acceleration_prev_to_curr"

JERK == "jerk_prev_to_curr"

\* Seconds in a day: Timedelta.seconds is the seconds component, 0..86399,
\* of a timedelta normalised to days, seconds and microseconds.
SecondsPerDay == 86400

\* Series.dt.seconds of a timedelta of delta seconds.
DtSeconds(delta) == delta % SecondsPerDay

\* Series.diff(): NaN first, then x[k] - x[k-1].
Diff(col) ==
    [k \in 1..Len(col) |-> IF k = 1 THEN NaN ELSE FSub(col[k], col[k-1])]

\* Mutant of TimeDeltas: the difference is taken within each trajectory, the
\* first row of a trajectory having none.
TimeDeltasPerTrajectory(t) ==
    LET ts == t.cols["DateTime"]
        id == t.cols["traj_id"]
    IN [k \in 1..Len(ts) |->
          IF k = 1 \/ id[k] # id[k-1] THEN NaN
          ELSE FromInt(DtSeconds(ts[k] - ts[k-1]))]

\* dataframe.reset_index()[const.DateTime].diff().dt.seconds: NaT first.
TimeDeltas(t) ==
    LET ts == t.cols["DateTime"]
    IN [k \in 1..Len(ts) |->
          IF k = 1 THEN NaN ELSE FromInt(DtSeconds(ts[k] - ts[k-1]))]

\* (a / b).to_numpy(), element by element.
DivCols(a, b) == [k \in 1..Len(a) |-> FDiv(a[k], b[k])]

Raised(df, exc) == [ok |-> FALSE, exc |-> exc, ret |-> None, arg |-> df, same |-> FALSE]

\* The try branch went through: the column is set on the argument object,
\* which is returned.
InPlace(df, name, values) ==
    LET r == WithCol(df, name, values)
    IN [ok |-> TRUE, exc |-> None, ret |-> r, arg |-> r, same |-> TRUE]

\* Mutant of OnInner: the except branch works on a copy of what the inner
\* call returned.
OnInnerCopy(inner, name, values) ==
    [ok |-> TRUE, exc |-> None, ret |-> WithCol(inner.ret, name, values),
     arg |-> inner.arg, same |-> FALSE]

\* The except branch: dataframe = <inner call>; the column is set on the
\* object the inner call returned, which is the argument object only if the
\* inner call returned its argument.
OnInner(inner, name, values) ==
    LET r == WithCol(inner.ret, name, values)
    IN [ok |-> TRUE, exc |-> None, ret |-> r,
        arg |-> IF inner.same THEN r ELSE inner.arg,
        same |-> inner.same]

\* create_distance_between_consecutive_column: lines 142-157 in one step.
\* The result is a new object; Pool(0) raises ValueError on an empty table.
CreateDistance(df) ==
    LET ch == RowCountChunks(df, Stride)
    IN IF Len(ch) = 0 THEN Raised(df, "ValueError")
       ELSE [ok |-> TRUE, exc |-> None,
             ret |-> ConcatFrames(
                        [j \in 1..Len(ch) |-> ConsecutiveDistanceHelper(ch[j])]),
             arg |-> df, same |-> FALSE]

\* create_speed_from_prev_column, lines 334-339.
SpeedTry(df) == InPlace(df, SPEED, DivCols(df.cols[DIST], TimeDeltas(df)))

\* create_speed_from_prev_column, lines 347-353.
SpeedExcept(df) ==
    LET d == CreateDistance(df)
    IN IF ~d.ok THEN Raised(df, d.exc)
       ELSE OnInner(d, SPEED, DivCols(d.ret.cols[DIST], TimeDeltas(d.ret)))

\* The KeyError of line 334 selects the branch.
CreateSpeed(df) == IF HasCol(df, DIST) THEN SpeedTry(df) ELSE SpeedExcept(df)

\* create_acceleration_from_prev_column, lines 376-380.
AccelerationTry(df) ==
    InPlace(df, ACC, DivCols(Diff(df.cols[SPEED]), TimeDeltas(df)))

\* create_acceleration_from_prev_column, lines 385-390.
AccelerationExcept(df) ==
    LET s == CreateSpeed(df)
    IN IF ~s.ok THEN Raised(df, s.exc)
       ELSE OnInner(s, ACC, DivCols(Diff(s.ret.cols[SPEED]), TimeDeltas(s.ret)))

CreateAcceleration(df) ==
    IF HasCol(df, SPEED) THEN AccelerationTry(df) ELSE AccelerationExcept(df)

\* Mutant of JerkExcept: the jerk is taken from the speed differences.
JerkExceptFromSpeed(df) ==
    LET a == CreateAcceleration(df)
    IN IF ~a.ok THEN Raised(df, a.exc)
       ELSE OnInner(a, JERK, DivCols(Diff(a.ret.cols[SPEED]), TimeDeltas(a.ret)))

\* create_jerk_from_prev_column, lines 413-417.
JerkTry(df) ==
    InPlace(df, JERK, DivCols(Diff(df.cols[ACC]), TimeDeltas(df)))

\* create_jerk_from_prev_column, lines 422-427.
JerkExcept(df) ==
    LET a == CreateAcceleration(df)
    IN IF ~a.ok THEN Raised(df, a.exc)
       ELSE OnInner(a, JERK, DivCols(Diff(a.ret.cols[ACC]), TimeDeltas(a.ret)))

CreateJerk(df) == IF HasCol(df, ACC) THEN JerkTry(df) ELSE JerkExcept(df)

OpDistance == "create_distance_between_consecutive_column"

OpSpeed == "create_speed_from_prev_column"

OpAcceleration == "create_acceleration_from_prev_column"

OpJerk == "create_jerk_from_prev_column"

ChainOps == {OpDistance, OpSpeed, OpAcceleration, OpJerk}

Apply(op, df) ==
    CASE op = OpDistance     -> CreateDistance(df)
      [] op = OpSpeed        -> CreateSpeed(df)
      [] op = OpAcceleration -> CreateAcceleration(df)
      [] op = OpJerk         -> CreateJerk(df)

\* The four calls made one after the other.
ManualChain == <<OpDistance, OpSpeed, OpAcceleration, OpJerk>>

----------------------------------------------------------------------------
(* A caller's session: calls on the table it holds, each call's result     *)
(* becoming the table it holds; after a first call it may put the result   *)
(* aside and start again from the base table, so that two ways of          *)
(* computing a column can be compared.                                     *)

\* Bounds of Spec: tables of up to ChainMaxRows rows.
ChainMaxRows == 4

\* Time gaps: none, a minute, a day and two minutes.
ChainGaps == {0, 60, SecondsPerDay + 120}

ChainSteps == [new : BOOLEAN, gap : ChainGaps, move : {1}]

Init ==
    /\ PartIdle
    /\ ExecIdle
    /\ PivotIdle
    /\ LookIdle
    /\ StatIdle
    /\ base \in TablesUpTo(ChainMaxRows, ChainSteps)
    /\ cur = base
    /\ curIsBase = TRUE
    /\ argBefore = None
    /\ argAfter = None
    /\ aliased = FALSE
    /\ lastOp = None
    /\ outcome = None
    /\ ncalls = 0
    /\ onChain = TRUE
    /\ snapOp = None
    /\ snap = None

\* The caller runs  cur = op(cur).  A call that raises leaves the caller
\* with the table it had.
Call(op) ==
    /\ ncalls < Len(ManualChain)
    /\ LET r == Apply(op, cur)
       IN /\ argBefore' = cur
          /\ argAfter' = r.arg
          /\ aliased' = r.same
          /\ outcome' = IF r.ok THEN "ok" ELSE r.exc
          /\ cur' = IF r.ok THEN r.ret ELSE r.arg
          /\ curIsBase' = (curIsBase /\ (r.same \/ ~r.ok))
          /\ base' = IF curIsBase THEN r.arg ELSE base
    /\ lastOp' = op
    /\ ncalls' = ncalls + 1
    /\ onChain' = (onChain /\ op = ManualChain[ncalls + 1])
    /\ UNCHANGED <<snapOp, snap, notChain>>

CallDistance == Call(OpDistance)

CallSpeed == Call(OpSpeed)

CallAcceleration == Call(OpAcceleration)

CallJerk == Call(OpJerk)

\* After its first call the caller keeps the result and takes the base
\* table again.
Restart ==
    /\ ncalls = 1
    /\ snapOp = None
    /\ outcome = "ok"
    /\ snapOp' = lastOp
    /\ snap' = cur
    /\ cur' = base
    /\ curIsBase' = TRUE
    /\ argBefore' = None
    /\ argAfter' = None
    /\ aliased' = FALSE
    /\ lastOp' = None
    /\ outcome' = None
    /\ ncalls' = 0
    /\ onChain' = TRUE
    /\ UNCHANGED <<base, notChain>>

Next == CallDistance \/ CallSpeed \/ CallAcceleration \/ CallJerk \/ Restart

Spec == Init /\ [][Next]_vars

----------------------------------------------------------------------------
(* C7, C8 *)

\* C7 as claimed: after create_speed_from_prev_column, every row i > 0 whose
\* timestamp is not before that of row i-1 holds Distance_prev_to_curr[i]
\* divided by the whole elapsed time in seconds.
C7_SpeedIsDistanceOverElapsed ==
    (lastOp = OpSpeed /\ outcome = "ok") =>
        \A k \in 2..NRows(cur) :
            LET gap == cur.cols["DateTime"][k] - cur.cols["DateTime"][k-1]
            IN gap >= 0 =>
                 cur.cols[SPEED][k] = FDiv(cur.cols[DIST][k], FromInt(gap))

\* C8: create_jerk_from_prev_column called on a table with none of the three
\* prerequisite columns returns the same table (the jerk column and the
\* three prerequisite columns) as the four operations called one after the
\* other on that table.
C8_FallbackEqualsManualChain ==
    (snapOp = OpJerk /\ onChain /\ ncalls = Len(ManualChain) /\ outcome = "ok") =>
        /\ {DIST, SPEED, ACC, JERK} \subseteq DOMAIN cur.cols
        /\ {DIST, SPEED, ACC, JERK} \subseteq DOMAIN snap.cols
        /\ \A c \in {DIST, SPEED, ACC, JERK} : cur.cols[c] = snap.cols[c]
        /\ cur = snap

\* Witness of C8: both ways done on a table of more than one chunk that had
\* none of the columns, with a jerk that is a number other than 0.
C8_Witness ==
    /\ snapOp = OpJerk /\ onChain /\ ncalls = Len(ManualChain) /\ outcome = "ok"
    /\ DOMAIN base.cols = RawCols
    /\ NRows(base) > Stride
    /\ \E k \in 1..NRows(cur) :
          IsFinite(cur.cols[JERK][k]) /\ cur.cols[JERK][k] # FromInt(0)

----------------------------------------------------------------------------
(* C13 *)

FromPrevOps == {OpSpeed, OpAcceleration, OpJerk}

\* The column a from-previous operation adds.
ColumnOf(op) ==
    CASE op = OpSpeed        -> SPEED
      [] op = OpAcceleration -> ACC
      [] op = OpJerk         -> JERK

\* How many differences of consecutive rows lie between the speed and the
\* column: the rows 1..Depth(op)+1 of the column are NaN on every table.
Depth(op) ==
    CASE op = OpSpeed        -> 0
      [] op = OpAcceleration -> 1
      [] op = OpJerk         -> 2

\* Row k (from 1) has the timestamp of the row before it.
SameTimestamp(t, k) ==
    k >= 2 /\ t.cols["DateTime"][k] = t.cols["DateTime"][k-1]

\* The time delta the operations take for row k is 0.
ZeroDelta(t, k) ==
    k >= 2 /\ DtSeconds(t.cols["DateTime"][k] - t.cols["DateTime"][k-1]) = 0

\* The last call was a from-previous operation on a table that has two
\* consecutive rows with the same timestamp.
CalledOnSameTimestamp ==
    /\ lastOp \in FromPrevOps
    /\ \E k \in 1..NRows(argBefore) : SameTimestamp(argBefore, k)

\* C13 as claimed: a from-previous operation called on a table with two
\* consecutive rows of the same timestamp returns, with the row count of its
\* input; the second of the two rows holds a non-finite value in the new
\* column, and every other row past the leading undefined ones holds a finite
\* value.
C13_ZeroDeltaLocal ==
    CalledOnSameTimestamp =>
        /\ outcome = "ok"
        /\ NRows(cur) = NRows(argBefore)
        /\ \A k \in 1..NRows(cur) :
              SameTimestamp(cur, k) => ~IsFinite(cur.cols[ColumnOf(lastOp)][k])
        /\ \A k \in (Depth(lastOp) + 2)..NRows(cur) :
              ~SameTimestamp(cur, k) => IsFinite(cur.cols[ColumnOf(lastOp)][k])

\* C13 amended: the operation returns, with the row count of its input; the
\* second of the two rows holds a non-finite value, and so do the row after it
\* in the acceleration column and the two rows after it in the jerk column;
\* a row past the leading undefined ones is finite exactly when no row from
\* Depth rows before it up to itself has a time delta of 0.
C13_ZeroDeltaSpread ==
    CalledOnSameTimestamp =>
        /\ outcome = "ok"
        /\ NRows(cur) = NRows(argBefore)
        /\ \A k \in 1..NRows(cur) :
              SameTimestamp(cur, k) => ~IsFinite(cur.cols[ColumnOf(lastOp)][k])
        /\ \A k \in (Depth(lastOp) + 2)..NRows(cur) :
              IsFinite(cur.cols[ColumnOf(lastOp)][k]) <=>
                 \A i \in (k - Depth(lastOp))..k : ~ZeroDelta(cur, i)

\* Witness of C13: the acceleration of a table of four rows whose second row
\* has the timestamp of the first and whose later rows do not: the speed of
\* the second row is an infinity, the acceleration of the third row is an
\* infinity although its own time delta is not 0, and the fourth is finite.
C13_Witness ==
    /\ lastOp = OpAcceleration
    /\ outcome = "ok"
    /\ NRows(cur) = 4
    /\ SameTimestamp(cur, 2) /\ ~SameTimestamp(cur, 3) /\ ~SameTimestamp(cur, 4)
    /\ cur.cols[SPEED][2] = Inf(1)
    /\ cur.cols[ACC][3] = Inf(-1)
    /\ IsFinite(cur.cols[ACC][4])

----------------------------------------------------------------------------
(* C14 *)

\* The column whose absence sends a from-previous operation to its except
\* branch.
PrerequisiteOf(op) ==
    CASE op = OpSpeed        -> DIST
      [] op = OpAcceleration -> SPEED
      [] op = OpJerk         -> ACC

\* The columns the nested except branches look for, one after the other.
PrerequisiteChain(op) ==
    CASE op = OpSpeed        -> {DIST}
      [] op = OpAcceleration -> {SPEED, DIST}
      [] op = OpJerk         -> {ACC, SPEED, DIST}

\* The last call returned its argument object, to which it has added the
\* columns news and which is otherwise as it was.
ReturnedArgumentWith(news) ==
    /\ aliased
    /\ argAfter = cur
    /\ DOMAIN cur.cols = (DOMAIN argBefore.cols) \cup news
    /\ cur.idx = argBefore.idx
    /\ \A c \in (DOMAIN argBefore.cols) \ news : cur.cols[c] = argBefore.cols[c]

\* The last call left its argument object as it was and returned another
\* table, which has the columns news.
ReturnedNewTableWith(news) ==
    /\ ~aliased
    /\ argAfter = argBefore
    /\ news \subseteq DOMAIN cur.cols
    /\ ~(news \subseteq DOMAIN argBefore.cols)

\* C14 as claimed: a from-previous operation that returns has, when its
\* prerequisite column was present, added the new column to its argument in
\* place and returned the argument; when the prerequisite column was absent,
\* left the argument unchanged and returned another table that has the
\* prerequisite and the new column.
C14_InputAliasing ==
    (lastOp \in FromPrevOps /\ outcome = "ok") =>
        IF HasCol(argBefore, PrerequisiteOf(lastOp))
        THEN ReturnedArgumentWith({ColumnOf(lastOp)})
        ELSE ReturnedNewTableWith({PrerequisiteOf(lastOp), ColumnOf(lastOp)})

\* C14 amended: when the prerequisite column or, it being absent, a column
\* further down the chain (speed, distance) was present, the operation has
\* added the missing columns of the chain above it and the new column to its
\* argument in place and returned the argument; only when no column of the
\* chain was present has it left the argument unchanged and returned another
\* table, which has the whole chain and the new column.
C14_AliasingFollowsChain ==
    (lastOp \in FromPrevOps /\ outcome = "ok") =>
        LET chain == PrerequisiteChain(lastOp)
        IN IF \E c \in chain : HasCol(argBefore, c)
           THEN /\ ReturnedArgumentWith(chain \cup {ColumnOf(lastOp)})
                /\ HasCol(argBefore, PrerequisiteOf(lastOp)) =>
                      ReturnedArgumentWith({ColumnOf(lastOp)})
           ELSE ReturnedNewTableWith(chain \cup {ColumnOf(lastOp)})

\* Witness of C14: the acceleration called on a table that has the distance
\* but not the speed: the table returned is the argument, which now has the
\* speed and the acceleration.
C14_Witness ==
    /\ lastOp = OpAcceleration
    /\ outcome = "ok"
    /\ HasCol(argBefore, DIST)
    /\ ~HasCol(argBefore, SPEED)
    /\ aliased
    /\ argAfter # argBefore
    /\ HasCol(argAfter, SPEED)
    /\ HasCol(argAfter, ACC)

----------------------------------------------------------------------------
(* The caller's session on tables whose trajectories overlap in time: the  *)
(* first row of a trajectory may lie before the last row of the trajectory *)
(* above it.                                                               *)

\* A trajectory that starts a day less a minute before the row above it.
BackInTime == 60 - SecondsPerDay

OverlapGaps == {60, 120}

OverlapSteps ==
    [new : BOOLEAN, gap : OverlapGaps, move : {1}] \cup
    {[new |-> TRUE, gap |-> BackInTime, move |-> 1]}

InitOverlap ==
    /\ PartIdle
    /\ ExecIdle
    /\ PivotIdle
    /\ LookIdle
    /\ StatIdle
    /\ base \in TablesUpTo(ChainMaxRows, OverlapSteps)
    /\ cur = base
    /\ curIsBase = TRUE
    /\ argBefore = None
    /\ argAfter = None
    /\ aliased = FALSE
    /\ lastOp = None
    /\ outcome = None
    /\ ncalls = 0
    /\ onChain = TRUE
    /\ snapOp = None
    /\ snap = None

SpecOverlap == InitOverlap /\ [][Next]_vars

----------------------------------------------------------------------------
(* C15 *)

\* What a from-previous operation divides in row k (from 2).
Dividend(op, t, k) ==
    CASE op = OpSpeed        -> t.cols[DIST][k]
      [] op = OpAcceleration -> FSub(t.cols[SPEED][k], t.cols[SPEED][k-1])
      [] op = OpJerk         -> FSub(t.cols[ACC][k], t.cols[ACC][k-1])

\* C15: in the table a from-previous operation returns, the value of every
\* row but the first is its dividend divided by the time from the row above
\* it in the whole table to itself (in seconds, as the operations take it:
\* the seconds component), whether or not the row above is of another
\* trajectory or of another chunk; the first row of the table alone has no
\* time delta, so that every later row of the speed column holds a number.
C15_DeltaAcrossBoundaries ==
    (lastOp \in FromPrevOps /\ outcome = "ok") =>
        /\ IsNaN(cur.cols[ColumnOf(lastOp)][1])
        /\ \A k \in 2..NRows(cur) :
              cur.cols[ColumnOf(lastOp)][k] =
                 FDiv(Dividend(lastOp, cur, k),
                      FromInt(DtSeconds(cur.cols["DateTime"][k]
                                          - cur.cols["DateTime"][k-1])))
        /\ lastOp = OpSpeed =>
              \A k \in 2..NRows(cur) : IsFinite(cur.cols[SPEED][k])

\* Witness of C15: the speed of a table of four rows whose second row starts
\* a trajectory before the first row in time, and whose third row starts the
\* next chunk: the second row holds its distance over the minute the
\* operation takes as its time delta, the third row 0.
C15_Witness ==
    /\ lastOp = OpSpeed
    /\ outcome = "ok"
    /\ NRows(cur) = 4
    /\ cur.cols["traj_id"][2] # cur.cols["traj_id"][1]
    /\ cur.cols["DateTime"][2] < cur.cols["DateTime"][1]
    /\ cur.cols[SPEED][2] = Norm(KmPerDegree, 60)
    /\ StartsChunk(2)
    /\ cur.cols[SPEED][3] = FromInt(0)

----------------------------------------------------------------------------
(* pivot_stats_df.  A stats table has one row per (traj_id, Columns) pair, *)
(* one column per statistic and some label columns: ids its unique         *)
(* trajectory ids in order, labels the value of each label column for each *)
(* id.  A column of a pivoted table is named by a tuple: <<statistic,      *)
(* feature>> stands for the joined name, <<name>> for a label column.      *)

\* The feature names in the level Columns of the index.
Features == {"Distance", "Speed"}

\* The statistic columns.
Stats == {"mean", "max"}

\* const.ORDERED_COLS as imported: the canonical order of the pivoted columns.
CanonicalCols ==
    << <<"mean", "Distance">>, <<"max", "Distance">>,
       <<"mean", "Speed">>, <<"max", "Speed">> >>

\* Bounds of SpecPivot: trajectories of the stats table, calls made.
MaxPivotTraj == 2

MaxPivotCalls == 3

LabelNames == {"Species", "Label"}

\* Label values are class codes.
LabelValues == {7, 9}

TargetNames == LabelNames \cup {"Other"}

StatsTables ==
    UNION {
      { [ids |-> [k \in 1..n |-> k], labels |-> lv] :
           lv \in UNION {[L -> [1..n -> LabelValues]] : L \in SUBSET LabelNames} }
      : n \in 0..MaxPivotTraj }

\* small.drop(columns=['Species']): the columns line 139 drops.
DroppedColumns(target) == {"Species"}

\* cols = const.ORDERED_COLS; cols.append(target_col_name): the list object
\* is the module's, so this is the value const.ORDERED_COLS has afterwards.
AppendTarget(ordered, target) == Append(ordered, <<target>>)

\* One call: out, the table returned (its columns in order, its ids, and the
\* value of its last column for each id), the columns handed to pivot_table,
\* and const.ORDERED_COLS afterwards.
PivotStatsDf(stats, target, ordered) ==
    LET raise(exc) == [out |-> exc, ret |-> None, pivoted |-> {}, ordered |-> ordered]
        dropped == DroppedColumns(target)
        \* the columns left for pivot_table(index='traj_id', columns='Columns')
        values == (Stats \cup DOMAIN stats.labels) \ dropped
        \* the columns of to_return: the pivoted ones and the target (line 146)
        present == {<<v, f>> : v \in values, f \in Features} \cup {<<target>>}
        cols == Append(ordered, <<target>>)
    IN IF stats.ids = <<>> THEN raise("ValueError")             \* pd.concat([])
       ELSE IF target \notin DOMAIN stats.labels THEN raise("KeyError")   \* line 138
       ELSE IF ~(dropped \subseteq DOMAIN stats.labels) THEN raise("KeyError") \* line 139
       ELSE IF ~(Range(cols) \subseteq present)                  \* line 158
            THEN [out |-> "KeyError", ret |-> None, pivoted |-> values,
                  ordered |-> AppendTarget(ordered, target)]
       ELSE [out |-> "ok",
             ret |-> [columns |-> cols, ids |-> stats.ids,
                      last |-> stats.labels[target]],
             pivoted |-> values,
             ordered |-> AppendTarget(ordered, target)]

InitPivot ==
    /\ PartIdle
    /\ ExecIdle
    /\ ChainIdle
    /\ LookIdle
    /\ StatIdle
    /\ ORDERED_COLS = CanonicalCols
    /\ qstats \in StatsTables
    /\ qtargets = <<>>
    /\ qout = None
    /\ qret = None
    /\ qpivoted = {}

PivotCall(target) ==
    /\ Len(qtargets) < MaxPivotCalls
    /\ LET r == PivotStatsDf(qstats, target, ORDERED_COLS)
       IN /\ qout' = r.out
          /\ qret' = r.ret
          /\ qpivoted' = r.pivoted
          /\ ORDERED_COLS' = r.ordered
    /\ qtargets' = Append(qtargets, target)
    /\ UNCHANGED <<qstats, notPivot>>

NextPivot == \E target \in TargetNames : PivotCall(target)

SpecPivot == InitPivot /\ [][NextPivot]_vars

----------------------------------------------------------------------------
(* C5, C6 *)

LastTarget == qtargets[Len(qtargets)]

\* C5 as claimed: whenever every call so far had the same target_col_name
\* and the last one returned, it returned the canonical columns followed by
\* the target once, and the canonical list is what it was before the calls.
C5_PivotStateless ==
    (qout = "ok" /\ \A k \in 1..Len(qtargets) : qtargets[k] = LastTarget) =>
        /\ qret.columns = Append(CanonicalCols, <<LastTarget>>)
        /\ ORDERED_COLS = CanonicalCols

\* C6 as claimed: a first call whose target_col_name names a column of a
\* stats table with at least one trajectory returns; the target column was
\* not among the columns pivoted, and it is the last column of the output,
\* with the input's value for every trajectory.
C6_TargetPassthrough ==
    (Len(qtargets) = 1 /\ qstats.ids # <<>> /\ LastTarget \in DOMAIN qstats.labels) =>
        /\ qout = "ok"
        /\ LastTarget \notin qpivoted
        /\ qret.columns[Len(qret.columns)] = <<LastTarget>>
        /\ qret.last = qstats.labels[LastTarget]

----------------------------------------------------------------------------
(* get_start_location / get_end_location                                   *)

\* Bounds of SpecLookup: rows of the table, trajectory ids asked for.
LookMaxRows == 3

LookMaxId == 3

LookSteps == [new : BOOLEAN, gap : {0, 60}, move : {1}]

\* The positions (from 1) of a set of rows, in table order: what a boolean
\* mask selects.
RECURSIVE Ascending(_)
Ascending(S) ==
    IF S = {} THEN <<>>
    ELSE LET m == CHOOSE x \in S : \A y \in S : x <= y
         IN <<m>> \o Ascending(S \ {m})

\* Mutant of FilterByTraj: every row is kept.
FilterNothing(t, id) == [k \in 1..NRows(t) |-> k]

\* dataframe.loc[dataframe[const.TRAJECTORY_ID] == traj_id, ...]
FilterByTraj(t, id) == Ascending({k \in 1..NRows(t) : t.cols["traj_id"][k] = id})

\* Series.min() / Series.max() of the DateTime of the rows; NaT for no rows.
Extreme(t, rows, op) ==
    IF rows = <<>> THEN "NaT"
    ELSE CHOOSE x \in {t.cols["DateTime"][rows[i]] : i \in 1..Len(rows)} :
            \A i \in 1..Len(rows) :
               IF op = "get_start_location"
               THEN x <= t.cols["DateTime"][rows[i]]
               ELSE x >= t.cols["DateTime"][rows[i]]

\* filt.loc[filt[const.DateTime] == filt[const.DateTime].min(), ...]: the
\* rows at the extreme time, in order (none when the extreme is NaT).
AtExtreme(t, rows, op) ==
    LET x == Extreme(t, rows, op)
    IN Ascending({k \in Range(rows) : t.cols["DateTime"][k] = x})

\* The value a lookup returns, or the exception it raises.
Lookup(t, op, id) ==
    LET rows == IF id = NoId THEN [k \in 1..NRows(t) |-> k] ELSE FilterByTraj(t, id)
        loc  == AtExtreme(t, rows, op)
    IN IF id = NoId /\ loc = <<>> THEN [pc |-> "raised", ret |-> "KeyError"]
       ELSE IF loc = <<>>
            THEN [pc |-> "returned", ret |-> [kind |-> "message", id |-> id]]
       ELSE [pc |-> "returned",
             ret |-> [kind |-> "pair",
                      lat |-> t.cols["lat"][loc[1]],
                      lon |-> t.cols["lon"][loc[1]]]]

InitLookup ==
    /\ PartIdle
    /\ ExecIdle
    /\ ChainIdle
    /\ PivotIdle
    /\ StatIdle
    /\ ltbl \in TablesUpTo(LookMaxRows, LookSteps)
    /\ lgiven = ltbl
    /\ lop = None
    /\ lid = NoId
    /\ lpc = "idle"
    /\ lret = None

\* One call.  The function works on dataframe.copy(): the caller's table is
\* not written to.
LookupCall(op, id) ==
    /\ lpc = "idle"
    /\ lop' = op
    /\ lid' = id
    /\ LET r == Lookup(ltbl, op, id)
       IN lpc' = r.pc /\ lret' = r.ret
    /\ UNCHANGED <<ltbl, lgiven, notLook>>

GetStartLocation == \E id \in {NoId} \cup 1..LookMaxId : LookupCall("get_start_location", id)

GetEndLocation == \E id \in {NoId} \cup 1..LookMaxId : LookupCall("get_end_location", id)

NextLookup == GetStartLocation \/ GetEndLocation

SpecLookup == InitLookup /\ [][NextLookup]_vars

----------------------------------------------------------------------------
(* C10 *)

Occurs(t, id) == \E k \in 1..NRows(t) : t.cols["traj_id"][k] = id

\* C10: get_start_location / get_end_location called with a traj_id do not
\* raise; they return the not-found message when the traj_id is in no row and
\* a (latitude, longitude) pair, of a row of that trajectory, exactly when it
\* is in some row; the caller's table is as it was.
C10_MissingIdentifier ==
    (lpc # "idle" /\ lid # NoId) =>
        /\ lpc = "returned"
        /\ (lret.kind = "pair") <=> Occurs(ltbl, lid)
        /\ ~Occurs(ltbl, lid) => lret = [kind |-> "message", id |-> lid]
        /\ Occurs(ltbl, lid) =>
              \E k \in 1..NRows(ltbl) :
                  /\ ltbl.cols["traj_id"][k] = lid
                  /\ lret.lat = ltbl.cols["lat"][k]
                  /\ lret.lon = ltbl.cols["lon"][k]
        /\ ltbl = lgiven

\* Witness of C10: the message returned for an id that a table with rows of
\* other trajectories does not hold.
C10_Witness ==
    /\ lpc = "returned"
    /\ lid # NoId
    /\ NRows(ltbl) > 0
    /\ ~Occurs(ltbl, lid)
    /\ lret.kind = "message"

----------------------------------------------------------------------------
(* statistics.py: the import of the module and one call of                 *)
(* segment_traj_by_week or generate_kinematic_stats, worker by worker.     *)

\* ceil(a / b) for a >= 0, b > 0.
CeilDiv(a, b) == (a + b - 1) \div b

\* NUM_CPU = ceil((num * 2) / 3)
NumCpu(n) == CeilDiv(n * 2, 3)

OpSegment == "segment_traj_by_week"

OpStats == "generate_kinematic_stats"

StatOps == {OpSegment, OpStats}

\* Bounds of SpecStats: processing units, rows and trajectory ids of the table.
MaxCpu == 3

MaxStatRows == 3

MaxStatIds == 2

\* A table with the given trajectory id in each row, in this order; the rows
\* are a minute and a degree of longitude apart.
StatTable(ids) ==
    [idx  |-> [k \in 1..Len(ids) |-> k - 1],
     cols |-> [c \in RawCols |->
                 [k \in 1..Len(ids) |->
                    CASE c = "traj_id"  -> ids[k]
                      [] c = "DateTime" -> 60 * k
                      [] c = "lat"      -> 0
                      [] c = "lon"      -> k]]]

StatTables ==
    {StatTable(ids) : ids \in UNION {[1..n -> 1..MaxStatIds] : n \in 0..MaxStatRows}}

\* df.reset_index(): the rows labelled 0..n-1.
ResetIndex(t) == [idx |-> [k \in 1..NRows(t) |-> k - 1], cols |-> t.cols]

\* The unique trajectory ids of a table.
TrajIds(t) == Range(t.cols["traj_id"])

\* The number of rows of a trajectory.
TrajCount(t, id) == Cardinality({k \in 1..NRows(t) : t.cols["traj_id"][k] = id})

\* All orders of a finite set, as sequences.
Orders(S) ==
    {f \in [1..Cardinality(S) -> S] : \A i, j \in DOMAIN f : i # j => f[i] # f[j]}

\* list(dataframe.traj_id.value_counts().keys()): the unique ids, the most
\* frequent first; the order among ids of equal count is the sort's.
ValueCountsKeys(t) ==
    {f \in Orders(TrajIds(t)) :
        \A i, j \in DOMAIN f : i < j => TrajCount(t, f[i]) >= TrajCount(t, f[j])}

\* frame.loc[mask]: the rows at the given positions, labels kept.
TakeRows(t, pos) ==
    [idx  |-> [k \in 1..Len(pos) |-> t.idx[pos[k]]],
     cols |-> [c \in DOMAIN t.cols |-> [k \in 1..Len(pos) |-> t.cols[c][pos[k]]]]]

\* Mutant of TrajChunks: the table cut by row count, as the create_*_column
\* operations cut it.
TrajChunksByRowCount(ptdf, ids) == RowCountChunks(ResetIndex(ptdf), Stride)

\* df_chunks of generate_kinematic_stats: for every id of ids_, the rows of
\* ptdf.reset_index() whose trajectory id equals it.
TrajChunks(ptdf, ids) ==
    [i \in 1..Len(ids) |->
        TakeRows(ResetIndex(ptdf), FilterByTraj(ResetIndex(ptdf), ids[i]))]

\* KinematicFeatures.generate_kinematic_features(dataframe): the table with
\* its kinematic feature columns, every record kept in place.
GenerateKinematicFeatures(df) == CreateJerk(df)

\* helpers.stats_helper(chunk, target_col_name): the statistics of one
\* trajectory; the row holds the trajectory id and the number of records
\* reduced.
StatsHelper(chunk) ==
    [idx  |-> <<chunk.cols["traj_id"][1]>>,
     cols |-> [c \in {"count"} |-> <<NRows(chunk)>>]]

\* All ways to cut a sequence into consecutive non-empty blocks.
RECURSIVE Blocks(_)
Blocks(s) ==
    IF s = <<>> THEN {<<>>}
    ELSE UNION {{<<SubSeq(s, 1, k)>> \o rest : rest \in Blocks(SubSeq(s, k + 1, Len(s)))}
                  : k \in 1..Len(s)}

\* helpers._df_split_helper(dataframe): group-aware partitions; a partition
\* holds the records of any number of whole trajectories.
DfSplitHelper(t) ==
    {[i \in 1..Len(b) |->
         TakeRows(t, Ascending({k \in 1..NRows(t) : t.cols["traj_id"][k] \in Range(b[i])}))]
       : b \in Blocks(Ascending(TrajIds(t)))}

SecondsPerWeek == 604800

\* helpers.split_traj_helper(chunk): the chunk with the column seg_id, the
\* calendar week of each record.
SplitTrajHelper(chunk) ==
    WithCol(chunk, "seg_id",
            [k \in 1..NRows(chunk) |-> chunk.cols["DateTime"][k] \div SecondsPerWeek])

\* pd.concat(results).reset_index().set_index(['traj_id', 'seg_id', 'DateTime'])
\* .drop(columns=['index']): the three columns become the row labels and the
\* old labels are dropped.
SegmentResult(results) ==
    LET t == ConcatFrames(results)
    IN [idx  |-> [k \in 1..NRows(t) |->
                    <<t.cols["traj_id"][k], t.cols["seg_id"][k], t.cols["DateTime"][k]>>],
        cols |-> [c \in (DOMAIN t.cols) \ {"traj_id", "seg_id", "DateTime"} |-> t.cols[c]]]

\* The worker function of an operation.
StatWorker(op, chunk) ==
    IF op = OpSegment THEN SplitTrajHelper(chunk) ELSE StatsHelper(chunk)

\* multiprocessing.Pool(NUM_CPU)
PoolSize(n, numCpu) == numCpu

InitStats ==
    /\ PartIdle
    /\ ExecIdle
    /\ ChainIdle
    /\ PivotIdle
    /\ LookIdle
    /\ num \in 1..MaxCpu
    /\ NUM_CPU = 0
    /\ gop \in StatOps
    /\ gtbl \in StatTables
    /\ gchunks = <<>>
    /\ gpool = 0
    /\ gstatus = <<>>
    /\ gresults = <<>>
    /\ gpc = "import"
    /\ gret = None

\* import ptrail.preprocessing.statistics: lines 24-25.
Import ==
    /\ gpc = "import"
    /\ NUM_CPU' = NumCpu(num)
    /\ gpc' = "call"
    /\ UNCHANGED <<num, gop, gtbl, gchunks, gpool, gstatus, gresults, gret, notStat>>

\* The tasks are submitted to a Pool of the size the module uses.
Submit(chunks) ==
    /\ gchunks' = chunks
    /\ gpool' = PoolSize(num, NUM_CPU)
    /\ gstatus' = SeqOf(Len(chunks), "queued")
    /\ gresults' = SeqOf(Len(chunks), None)
    /\ gpc' = "map"

\* segment_traj_by_week, lines 47-54 up to the submission of the tasks.
SegmentCall ==
    /\ gpc = "call"
    /\ gop = OpSegment
    /\ \E chunks \in DfSplitHelper(ResetIndex(gtbl)) : Submit(chunks)
    /\ UNCHANGED <<num, NUM_CPU, gop, gtbl, gret, notStat>>

\* generate_kinematic_stats, lines 83-98 up to the submission of the tasks;
\* an exception of line 83 ends the call.
StatsCall ==
    /\ gpc = "call"
    /\ gop = OpStats
    /\ LET f == GenerateKinematicFeatures(gtbl)
       IN IF ~f.ok
          THEN /\ gpc' = "raised"
               /\ UNCHANGED <<gchunks, gpool, gstatus, gresults>>
          ELSE \E ids \in ValueCountsKeys(gtbl) : Submit(TrajChunks(f.ret, ids))
    /\ UNCHANGED <<num, NUM_CPU, gop, gtbl, gret, notStat>>

\* A free process of the pool takes a task.
StatWorkerStart(j) ==
    /\ gpc \in {"map", "raised"}
    /\ CanStart(gstatus, j)
    /\ Cardinality(Running(gstatus)) < gpool
    /\ gstatus' = [gstatus EXCEPT ![j] = "running"]
    /\ UNCHANGED <<num, NUM_CPU, gop, gtbl, gchunks, gpool, gresults, gpc, gret, notStat>>

\* The worker function returns.
StatWorkerFinish(j) ==
    /\ gpc \in {"map", "raised"}
    /\ gstatus[j] = "running"
    /\ gstatus' = [gstatus EXCEPT ![j] = "done"]
    /\ gresults' = [gresults EXCEPT ![j] = StatWorker(gop, gchunks[j])]
    /\ UNCHANGED <<num, NUM_CPU, gop, gtbl, gchunks, gpool, gpc, gret, notStat>>

\* The worker function raises.
StatWorkerFail(j) ==
    /\ gpc \in {"map", "raised"}
    /\ gstatus[j] = "running"
    /\ gstatus' = [gstatus EXCEPT ![j] = "failed"]
    /\ UNCHANGED <<num, NUM_CPU, gop, gtbl, gchunks, gpool, gresults, gpc, gret, notStat>>

\* map() / starmap() returns or raises; then close(), join() and the lines up
\* to the return.  pd.concat of no results raises ValueError.
StatMapEnd ==
    /\ gpc = "map"
    /\ MapReady(gstatus)
    /\ IF Failed(gstatus) # {} \/ gresults = <<>>
       THEN gpc' = "raised" /\ gret' = None
       ELSE /\ gpc' = "returned"
            /\ gret' = IF gop = OpSegment THEN SegmentResult(gresults)
                       ELSE ConcatFrames(gresults)
    /\ UNCHANGED <<num, NUM_CPU, gop, gtbl, gchunks, gpool, gstatus, gresults, notStat>>

NextStats ==
    \/ Import
    \/ SegmentCall
    \/ StatsCall
    \/ \E j \in 1..Len(gstatus) : StatWorkerStart(j)
    \/ \E j \in 1..Len(gstatus) : StatWorkerFinish(j)
    \/ \E j \in 1..Len(gstatus) : StatWorkerFail(j)
    \/ StatMapEnd

SpecStats == InitStats /\ [][NextStats]_vars

----------------------------------------------------------------------------
(* C11, C12 *)

\* C11 as claimed: once the module is imported, NUM_CPU is ceil(2n/3) for the
\* n processing units, at least 1 and less than n; the Pool of either
\* operation has NUM_CPU processes, so that fewer than n tasks run at any
\* time and a processing unit stays free.
C11_ThrottleKeepsCpuFree ==
    gpc # "import" =>
        /\ NUM_CPU * 3 >= 2 * num
        /\ (NUM_CPU - 1) * 3 < 2 * num
        /\ NUM_CPU >= 1
        /\ NUM_CPU < num
        /\ gpc \in {"map", "returned"} => gpool = NUM_CPU
        /\ Cardinality(Running(gstatus)) < num

\* The positions (from 1) of the rows of trajectory id in the caller's table.
RowsOfTraj(id) == {k \in 1..NRows(gtbl) : gtbl.cols["traj_id"][k] = id}

\* C12: every chunk generate_kinematic_stats hands to a worker holds the
\* records of one trajectory id, all of them and in table order; there is one
\* chunk for every trajectory id of the table and no other, and every record
\* of the table is in exactly one chunk.
C12_OneChunkPerTrajectory ==
    (gop = OpStats /\ gpc \in {"map", "returned"}) =>
        /\ Len(gchunks) = Cardinality(TrajIds(gtbl))
        /\ \A id \in TrajIds(gtbl) :
              \E j \in 1..Len(gchunks) :
                  /\ gchunks[j].idx =
                        [k \in 1..Cardinality(RowsOfTraj(id)) |->
                            Ascending(RowsOfTraj(id))[k] - 1]
                  /\ \A c \in RawCols :
                        gchunks[j].cols[c] =
                            [k \in 1..Cardinality(RowsOfTraj(id)) |->
                                gtbl.cols[c][Ascending(RowsOfTraj(id))[k]]]
        /\ \A k \in 1..NRows(gtbl) :
              Cardinality({j \in 1..Len(gchunks) : (k - 1) \in Range(gchunks[j].idx)}) = 1

\* Witness of C12: the chunks of a table whose trajectories are interleaved,
\* handed to a Pool with fewer processes than chunks.
C12_Witness ==
    /\ gop = OpStats
    /\ gpc = "map"
    /\ Len(gchunks) >= 2
    /\ gpool < Len(gchunks)
    /\ \E k \in 2..(NRows(gtbl) - 1) :
          /\ gtbl.cols["traj_id"][k] # gtbl.cols["traj_id"][k-1]
          /\ gtbl.cols["traj_id"][k+1] = gtbl.cols["traj_id"][k-1]

----------------------------------------------------------------------------
(* C1, C2 *)

\* The index labels a sequence of label ranges selects are exactly 0..n-1,
\* each once and in ascending order (ranges non-empty, adjacent, first at 0,
\* last at n-1).
CoversInOrder(chunks, n) ==
    /\ \A k \in 1..Len(chunks) : chunks[k].lo <= chunks[k].hi
    /\ \A k \in 1..Len(chunks) :
          chunks[k].lo = (IF k = 1 THEN 0 ELSE chunks[k-1].hi + 1)
    /\ (IF chunks = <<>> THEN n = 0 ELSE chunks[Len(chunks)].hi = n - 1)

\* C1: when the partition loop of a create_*_column operation has ended, the
\* chunks concatenated in order are the table: every row label 0..n-1 once,
\* in its original position, for every n including 0 and 1.
C1_PartitionRoundTrip ==
    ppc # "loop" =>
        /\ CoversInOrder(pchunks, pn)
        /\ SumSeq([k \in 1..Len(pchunks) |-> ChunkLen(pchunks[k])]) = pn

\* Witness of C1: a table cut into more than one chunk.
C1_Witness == ppc = "map" /\ Len(pchunks) >= 2 /\ pn > CHUNK_STEP

\* C2 as claimed: no chunk holds more than 75,000 records.
C2_ChunkCeiling ==
    \A k \in 1..Len(pchunks) : ChunkLen(pchunks[k]) <= 75000

====
